---- MODULE Spec2Model ----
(***************************************************************************)
(* Model of convert.py, the LegendKeeper to Foundry VTT converter.          *)
(*                                                                          *)
(* Python values are tagged tuples, so that values of different Python      *)
(* types can be compared and malformed input shapes can be written down:    *)
(*   None -> <<"null">>          str  -> <<"str", chunks>>                   *)
(*   int  -> <<"int", n>>        bool -> <<"bool", b>>                       *)
(*   float -> <<"float", its literal>>                                      *)
(*   list -> <<"list", seq>>     dict -> <<"dict", function on keys>>        *)
(* A str is a sequence of chunks (TLA+ strings): every literal piece of a   *)
(* Python string and every piece of input text is one chunk, '' is <<>>,    *)
(* concatenation is \o, startswith and 'in' look at the chunks.             *)
(* A call that raises yields <<"raise", exception name>>.                   *)
(***************************************************************************)
EXTENDS Integers, Sequences, FiniteSets, TLC

VARIABLES
    pc,                   \* position in main(), or in a single function call
    resources,            \* main: data['resources'], a sequence of resource dicts
    image_map,            \* the Asset Reference Table: url -> local path
    resource_id_map,      \* the Identifier Resolution Table: source id -> {id, type}
    resource_foundry_ids, \* main: insertion-ordered dict, as a sequence of <<key, value>>
    idx,                  \* main: number of loop iterations done in the current pass
    journal_entries,      \* main: list of journal entry records
    scenes,               \* main: list of scene records
    packs,                \* main: the files written under packs/, name -> records
    arg,                  \* single function call: the argument
    ret                   \* single function call: the returned value or the raise

vars == <<pc, resources, image_map, resource_id_map, resource_foundry_ids, idx,
          journal_entries, scenes, packs, arg, ret>>

-----------------------------------------------------------------------------
(* Python values *)

Null == <<"null">>
Str(s) == <<"str", s>>
Num(n) == <<"int", n>>
Bool(b) == <<"bool", b>>
List(xs) == <<"list", xs>>
Dict(f) == <<"dict", f>>
Float(c) == <<"float", c>>
Raise(e) == <<"raise", e>>

EmptyStr == Str(<<>>)
EmptyDict == Dict(<<>>)
EmptyList == List(<<>>)
Lit(c) == Str(<<c>>)

IsNull(v) == v[1] = "null"
IsStr(v) == v[1] = "str"
IsList(v) == v[1] = "list"
IsDict(v) == v[1] = "dict"
IsRaise(v) == v[1] = "raise"

\* bool(v): Python truthiness
Truthy(v) ==
    CASE v[1] = "null" -> FALSE
      [] v[1] = "str" -> v[2] # <<>>
      [] v[1] = "int" -> v[2] # 0
      [] v[1] = "bool" -> v[2]
      [] v[1] = "list" -> v[2] # <<>>
      [] v[1] = "dict" -> DOMAIN v[2] # {}
      [] OTHER -> TRUE

\* d.get(k, default) on a dict d
Get(d, k, default) == IF k \in DOMAIN d[2] THEN d[2][k] ELSE default

\* v.get(k, default) on any value: only a dict has the method
DotGet(v, k, default) ==
    IF IsDict(v) THEN Get(v, k, default) ELSE Raise("AttributeError")

\* hash(v) succeeds: lists and dicts are unhashable
Hashable(v) == v[1] \notin {"list", "dict"}

\* the chunks an f-string puts for {v}
Fmt(v) ==
    CASE v[1] = "str" -> v[2]
      [] v[1] = "null" -> <<"None">>
      [] v[1] = "int" -> <<ToString(v[2])>>
      [] v[1] = "bool" -> IF v[2] THEN <<"True">> ELSE <<"False">>
      [] v[1] = "list" -> IF v[2] = <<>> THEN <<"[]">> ELSE <<"[...]">>
      [] OTHER -> IF DOMAIN v[2] = {} THEN <<"{}">> ELSE <<"{...}">>

\* the chunks of the inputs that begin with 'http'
HttpChunks == {"http", "http://", "https://"}

\* s.startswith('http')
StartsWithHttp(s) == Len(s[2]) >= 1 /\ s[2][1] \in HttpChunks

\* c in s, c one literal chunk
Contains(s, c) == \E i \in 1..Len(s[2]) : s[2][i] = c

RECURSIVE ConcatAll(_)
ConcatAll(ss) == IF ss = <<>> THEN <<>> ELSE Head(ss)[2] \o ConcatAll(Tail(ss))

\* ''.join(parts) once the generator has produced parts: a raise inside the
\* generator propagates, a part that is no str is a TypeError
JoinParts(parts) ==
    IF \E i \in 1..Len(parts) : IsRaise(parts[i])
    THEN parts[CHOOSE i \in 1..Len(parts) :
                  IsRaise(parts[i]) /\ \A j \in 1..(i - 1) : ~IsRaise(parts[j])]
    ELSE IF \E i \in 1..Len(parts) : ~IsStr(parts[i])
    THEN Raise("TypeError")
    ELSE Str(ConcatAll(parts))

-----------------------------------------------------------------------------
(* generate_id: the possible outcomes of the random draw *)

IdPool == 3

\* generate_id() returns one of 62^16 strings; IdPool of them are told apart
generate_id == {Str(<<"id" \o ToString(n)>>) : n \in 1..IdPool}

-----------------------------------------------------------------------------
(* convert_prosemirror_to_html *)

KnownTypes ==
    {"doc", "heading", "paragraph", "text", "bulletList", "orderedList", "listItem",
     "image", "rule", "codeBlock", "blockquote", "bodiedExtension", "panel",
     "layoutSection", "layoutColumn", "mention", "inlineExtension"}

\* one step of the loop over marks: the text wrapped by one mark
apply_mark(text, mark) ==
    LET mark_type == DotGet(mark, "type", EmptyStr) IN
    IF IsRaise(mark_type) THEN mark_type
    ELSE IF mark_type = Lit("strong") THEN Str(<<"<strong>">> \o Fmt(text) \o <<"</strong>">>)
    ELSE IF mark_type = Lit("em") THEN Str(<<"<em>">> \o Fmt(text) \o <<"</em>">>)
    ELSE IF mark_type = Lit("code") THEN Str(<<"<code>">> \o Fmt(text) \o <<"</code>">>)
    ELSE IF mark_type = Lit("underline") THEN Str(<<"<u>">> \o Fmt(text) \o <<"</u>">>)
    ELSE IF mark_type = Lit("strike") THEN Str(<<"<s>">> \o Fmt(text) \o <<"</s>">>)
    ELSE text

RECURSIVE apply_marks(_, _)
apply_marks(text, ms) ==
    IF ms = <<>> THEN text
    ELSE LET t == apply_mark(text, Head(ms)) IN
         IF IsRaise(t) THEN t ELSE apply_marks(t, Tail(ms))

\* the 'text' branch: for mark in marks iterates a list, the keys of a dict
\* or the characters of a str, and raises on anything else
render_text(node, marks) ==
    LET text == Get(node, "text", EmptyStr) IN
    CASE IsList(marks) -> apply_marks(text, marks[2])
      [] IsStr(marks) -> IF marks[2] = <<>> THEN text ELSE Raise("AttributeError")
      [] IsDict(marks) -> IF DOMAIN marks[2] = {} THEN text ELSE Raise("AttributeError")
      [] OTHER -> Raise("TypeError")

\* the 'image' branch
render_image(attrs, imap) ==
    LET src == DotGet(attrs, "src", EmptyStr)
        alt == DotGet(attrs, "alt", EmptyStr)
    IN  IF IsRaise(src) THEN src
        ELSE IF ~Hashable(src) THEN Raise("TypeError")
        ELSE LET src2 == IF src \in DOMAIN imap THEN imap[src] ELSE src IN
             Str(<<"<img src=\"">> \o Fmt(src2) \o <<"\" alt=\"">> \o Fmt(alt)
                 \o <<"\" />">>)

\* a bug of the token: the kind and the identifier change places
render_mention_swapped(attrs, rmap) ==
    LET mention_text == DotGet(attrs, "text", EmptyStr)
        resource_id == DotGet(attrs, "id", EmptyStr)
    IN  IF IsRaise(mention_text) THEN mention_text
        ELSE IF ~Hashable(resource_id) THEN Raise("TypeError")
        ELSE IF resource_id \in DOMAIN rmap
        THEN LET mapping == rmap[resource_id] IN
             Str(<<"@UUID[">> \o Fmt(Get(mapping, "id", Null)) \o <<".">>
                 \o Fmt(Get(mapping, "type", Null)) \o <<"]{">> \o Fmt(mention_text)
                 \o <<"}">>)
        ELSE mention_text

\* the 'mention' branch; mapping['id'] and mapping['type'] raise KeyError when absent
render_mention(attrs, rmap) ==
    LET mention_text == DotGet(attrs, "text", EmptyStr)
        resource_id == DotGet(attrs, "id", EmptyStr)
    IN  IF IsRaise(mention_text) THEN mention_text
        ELSE IF ~Hashable(resource_id) THEN Raise("TypeError")
        ELSE IF resource_id \in DOMAIN rmap
        THEN LET mapping == rmap[resource_id] IN
             IF ~IsDict(mapping) THEN Raise("TypeError")
             ELSE IF {"id", "type"} \subseteq DOMAIN mapping[2]
             THEN Str(<<"@UUID[">> \o Fmt(mapping[2]["type"]) \o <<".">>
                      \o Fmt(mapping[2]["id"]) \o <<"]{">> \o Fmt(mention_text)
                      \o <<"}">>)
             ELSE Raise("KeyError")
        ELSE mention_text

\* the 'inlineExtension' branch
render_inline_extension(attrs) ==
    LET text == DotGet(attrs, "text", EmptyStr)
        icon == IF IsRaise(text) THEN text
                ELSE DotGet(DotGet(attrs, "parameters", EmptyDict), "icon", EmptyStr)
    IN  IF IsRaise(icon) THEN icon
        ELSE IF Truthy(icon)
        THEN Str(<<"<i class=\"">> \o Fmt(icon) \o <<"\"></i> ">> \o Fmt(text))
        ELSE text

\* f'{open}{inner}{close}' around the joined children, or the raise
Wrapped(open, inner, close) ==
    IF IsRaise(inner) THEN inner ELSE Str(open \o inner[2] \o close)

RECURSIVE process_node(_, _, _)
RECURSIVE join_children(_, _, _)

\* a bug of the fallback: the children of an unknown node are dropped
render_unknown_dropping(node_content, imap, rmap) ==
    IF IsRaise(join_children(node_content, imap, rmap))
    THEN join_children(node_content, imap, rmap)
    ELSE EmptyStr

\* the else branch: an unknown node type
render_unknown(node_content, imap, rmap) == join_children(node_content, imap, rmap)

\* ''.join(process_node(child) for child in node_content)
join_children(node_content, imap, rmap) ==
    CASE IsList(node_content) ->
            JoinParts([i \in 1..Len(node_content[2]) |->
                          process_node(node_content[2][i], imap, rmap)])
      [] IsStr(node_content) -> EmptyStr   \* its characters are no dicts
      [] IsDict(node_content) -> EmptyStr  \* its keys are no dicts
      [] OTHER -> Raise("TypeError")

process_node(node, imap, rmap) ==
    IF ~IsDict(node) THEN EmptyStr
    ELSE
    LET node_type == Get(node, "type", EmptyStr)
        node_content == Get(node, "content", EmptyList)
        attrs == Get(node, "attrs", EmptyDict)
        marks == Get(node, "marks", EmptyList)
        inner == join_children(node_content, imap, rmap)
        \* an attribute read before the children are joined
        After(a, html) == IF IsRaise(a) THEN a ELSE html
    IN
    CASE node_type = Lit("doc") -> inner
      [] node_type = Lit("heading") ->
            LET level == DotGet(attrs, "level", Num(2)) IN
            After(level, Wrapped(<<"<h">> \o Fmt(level) \o <<">">>, inner,
                                 <<"</h">> \o Fmt(level) \o <<">">>))
      [] node_type = Lit("paragraph") ->
            IF IsRaise(inner) THEN inner
            ELSE IF Truthy(inner) THEN Wrapped(<<"<p>">>, inner, <<"</p>">>)
            ELSE Str(<<"<p>", "</p>">>)
      [] node_type = Lit("text") -> render_text(node, marks)
      [] node_type = Lit("bulletList") -> Wrapped(<<"<ul>">>, inner, <<"</ul>">>)
      [] node_type = Lit("orderedList") -> Wrapped(<<"<ol>">>, inner, <<"</ol>">>)
      [] node_type = Lit("listItem") -> Wrapped(<<"<li>">>, inner, <<"</li>">>)
      [] node_type = Lit("image") -> render_image(attrs, imap)
      [] node_type = Lit("rule") -> Str(<<"<hr />">>)
      [] node_type = Lit("codeBlock") ->
            Wrapped(<<"<pre><code>">>, inner, <<"</code></pre>">>)
      [] node_type = Lit("blockquote") ->
            Wrapped(<<"<blockquote>">>, inner, <<"</blockquote>">>)
      [] node_type = Lit("bodiedExtension") ->
            LET ext_key == DotGet(attrs, "extensionKey", EmptyStr)
                ext_title == DotGet(DotGet(attrs, "parameters", EmptyDict),
                                    "extensionTitle", Lit("Secret"))
            IN  After(ext_key, After(ext_title,
                    Wrapped(<<"<div class=\"secret\"><strong>">> \o Fmt(ext_title)
                                \o <<":</strong> ">>, inner, <<"</div>">>)))
      [] node_type = Lit("panel") ->
            LET panel_type == DotGet(attrs, "panelType", Lit("info")) IN
            After(panel_type,
                  Wrapped(<<"<div class=\"panel panel-">> \o Fmt(panel_type) \o <<"\">">>,
                          inner, <<"</div>">>))
      [] node_type = Lit("layoutSection") ->
            Wrapped(<<"<div class=\"layout-section\">">>, inner, <<"</div>">>)
      [] node_type = Lit("layoutColumn") ->
            LET width == DotGet(attrs, "width", Num(50)) IN
            After(width,
                  Wrapped(<<"<div class=\"layout-column\" style=\"width:">>
                              \o Fmt(width) \o <<"%\">">>, inner, <<"</div>">>))
      [] node_type = Lit("mention") -> render_mention(attrs, rmap)
      [] node_type = Lit("inlineExtension") -> render_inline_extension(attrs)
      [] OTHER -> render_unknown(node_content, imap, rmap)

\* the table a caller gets that passes no resource_id_map: None becomes {}
NoTable == <<>>

convert_prosemirror_to_html(content, imap, rmap) ==
    IF ~Truthy(content) \/ ~IsDict(content) THEN EmptyStr
    ELSE process_node(content, imap, rmap)

-----------------------------------------------------------------------------
(* collect_image_urls and download_image *)

ASSET_HOST == "assets.legendkeeper.com"

\* the set a Python set holds
SetOf(S) == <<"set", S>>

\* the values extract_urls recurses into: dict values, list items
Children(obj) ==
    CASE IsDict(obj) -> {obj[2][k] : k \in DOMAIN obj[2]}
      [] IsList(obj) -> {obj[2][i] : i \in 1..Len(obj[2])}
      [] OTHER -> {}

\* what one dict adds to urls: obj['url'] and obj['mapId'] when a str holding the host
OwnUrls(obj) ==
    IF ~IsDict(obj) THEN {}
    ELSE {obj[2][k] : k \in {k \in {"url", "mapId"} \cap DOMAIN obj[2] :
                                IsStr(obj[2][k]) /\ Contains(obj[2][k], ASSET_HOST)}}

RECURSIVE extract_urls(_)
extract_urls(obj) == OwnUrls(obj) \cup UNION {extract_urls(c) : c \in Children(obj)}

collect_image_urls(data) == SetOf(extract_urls(data))

\* url.split('/')[-1]: the chunk after the last '/'
Filename(url) == url[2][Len(url[2])]

\* the outcomes of download_image(url, category): None, or the local path when
\* the file is there or its download succeeds
download_image(url, category) ==
    IF ~Truthy(url) \/ ~StartsWithHttp(url) THEN {Null}
    ELSE IF ~Contains(url, ASSET_HOST) THEN {Null}
    ELSE {Null, Str(<<"modules/tennisfel/", "assets/", category, "/", Filename(url)>>)}

-----------------------------------------------------------------------------
(* classify_resource *)

\* the items of a JSON array
Items(v) == IF IsList(v) THEN v[2] ELSE <<>>

IsMapDoc(doc) == DotGet(doc, "type", Null) = Lit("map")
IsPageDoc(doc) == DotGet(doc, "type", Null) = Lit("page")
IsImageProp(prop) == DotGet(prop, "type", Null) = Lit("IMAGE")

\* prop.get('data', {}).get('url', '')
PropUrl(prop) == DotGet(DotGet(prop, "data", EmptyDict), "url", EmptyStr)

\* doc.get('map', {}).get('mapId', '')
MapId(doc) == DotGet(DotGet(doc, "map", EmptyDict), "mapId", EmptyStr)

\* the first document of kind map, or None
FirstMapDoc(resource) ==
    LET docs == Items(Get(resource, "documents", EmptyList))
        maps == {i \in 1..Len(docs) : IsMapDoc(docs[i])}
    IN  IF maps = {} THEN Null
        ELSE docs[CHOOSE i \in maps : \A j \in maps : i <= j]

UrlShaped(url) == IsStr(url) /\ Truthy(url) /\ StartsWithHttp(url)

\* a bug: the loop goes on after a map document without an image, so that any
\* map document decides
classify_resource_any_map(resource) ==
    LET docs == Items(Get(resource, "documents", EmptyList))
        props == Items(Get(resource, "properties", EmptyList))
    IN  IF \/ \E i \in 1..Len(docs) : IsMapDoc(docs[i]) /\ UrlShaped(MapId(docs[i]))
           \/ /\ \E i \in 1..Len(docs) : IsMapDoc(docs[i])
              /\ \E i \in 1..Len(props) : IsImageProp(props[i]) /\ UrlShaped(PropUrl(props[i]))
        THEN Lit("Scene")
        ELSE Lit("JournalEntry")

\* the loop returns or breaks at the first map document
classify_resource(resource) ==
    LET doc == FirstMapDoc(resource)
        props == Items(Get(resource, "properties", EmptyList))
    IN  IF IsNull(doc) THEN Lit("JournalEntry")
        ELSE IF UrlShaped(MapId(doc)) THEN Lit("Scene")
        ELSE IF \E i \in 1..Len(props) :
                    IsImageProp(props[i]) /\ UrlShaped(PropUrl(props[i]))
        THEN Lit("Scene")
        ELSE Lit("JournalEntry")

-----------------------------------------------------------------------------
(* create_journal_entry and create_scene_entry *)

\* flags.tennisfel of every record
Flags(resource) ==
    Dict("tennisfel" :> Dict("legendkeeper_id" :> Get(resource, "id", EmptyStr)
                             @@ "tags" :> Get(resource, "tags", EmptyList)))

Page(page_id, page_name, html_content, sort) ==
    Dict("_id" :> page_id @@ "name" :> page_name @@ "type" :> Lit("text")
         @@ "title" :> Dict("show" :> Bool(TRUE) @@ "level" :> Num(1))
         @@ "text" :> Dict("format" :> Num(1) @@ "content" :> html_content)
         @@ "sort" :> Num(sort))

\* a bug: the test of the document kind is missing, every document gives a page
PageDocsUnfiltered(resource) == Items(Get(resource, "documents", EmptyList))

\* the documents the loop makes a page of: those of kind page, in order
PageDocs(resource) == SelectSeq(Items(Get(resource, "documents", EmptyList)), IsPageDoc)

\* the number of generate_id() calls of create_journal_entry
JournalIdCalls(resource) ==
    1 + (IF PageDocs(resource) = <<>> THEN 1 ELSE Len(PageDocs(resource)))

\* pages after the loop over the documents and the default page
PagesBuilt(resource, imap, rmap, ids) ==
    LET docs == PageDocs(resource) IN
    IF docs = <<>>
    THEN <<Page(ids[2], Lit("Main"), Str(<<"<p>No content</p>">>), 0)>>
    ELSE [k \in 1..Len(docs) |->
             Page(ids[k + 1], Get(docs[k], "name", Lit("Main")),
                  convert_prosemirror_to_html(Get(docs[k], "content", EmptyDict), imap, rmap),
                  k - 1)]

PageContent(page) == page[2]["text"][2]["content"]

WithContent(page, html) ==
    Dict([page[2] EXCEPT !["text"] = Dict([page[2]["text"][2] EXCEPT !["content"] = html])])

\* ids: the values the generate_id() calls return, in call order
create_journal_entry(resource, imap, rmap, ids) ==
    LET name == Get(resource, "name", Lit("Untitled"))
        pages == PagesBuilt(resource, imap, rmap, ids)
        banner_url == DotGet(Get(resource, "banner", EmptyDict), "url", EmptyStr)
        Record(ps) ==
            Dict("_id" :> ids[1] @@ "name" :> name @@ "pages" :> List(ps)
                 @@ "folder" :> Null @@ "sort" :> Num(0)
                 @@ "ownership" :> Dict("default" :> Num(0)) @@ "flags" :> Flags(resource))
    IN  IF \E k \in 1..Len(pages) : IsRaise(PageContent(pages[k]))
        THEN PageContent(pages[CHOOSE k \in 1..Len(pages) :
                                  /\ IsRaise(PageContent(pages[k]))
                                  /\ \A j \in 1..(k - 1) : ~IsRaise(PageContent(pages[j]))])
        ELSE IF IsRaise(banner_url) THEN banner_url
        ELSE IF Truthy(banner_url) /\ Hashable(banner_url) /\ banner_url \in DOMAIN imap
        THEN IF ~IsStr(PageContent(pages[1])) THEN Raise("TypeError")
             ELSE Record([pages EXCEPT ![1] =
                            WithContent(pages[1],
                                Str(<<"<img src=\"">> \o Fmt(imap[banner_url]) \o <<"\" alt=\"">>
                                    \o Fmt(name) \o <<"\" />">> \o PageContent(pages[1])[2]))])
        ELSE Record(pages)

\* the first IMAGE property whose url is in the table, or None
FirstImagePath(resource, imap) ==
    LET props == Items(Get(resource, "properties", EmptyList))
        hits == {i \in 1..Len(props) :
                    /\ IsImageProp(props[i])
                    /\ Truthy(PropUrl(props[i]))
                    /\ PropUrl(props[i]) \in DOMAIN imap}
    IN  IF hits = {} THEN Null
        ELSE imap[PropUrl(props[CHOOSE i \in hits : \A j \in hits : i <= j])]

Scene(scene_id, name, background_src, resource) ==
    Dict("_id" :> scene_id @@ "name" :> name
         @@ "background" :> Dict("src" :> background_src)
         @@ "width" :> Num(4096) @@ "height" :> Num(4096) @@ "padding" :> Float("0.25")
         @@ "grid" :> Dict("type" :> Num(0) @@ "size" :> Num(100)
                           @@ "color" :> Lit("#000000") @@ "alpha" :> Float("0.2"))
         @@ "tokens" :> EmptyList @@ "notes" :> EmptyList @@ "drawings" :> EmptyList
         @@ "lights" :> EmptyList @@ "sounds" :> EmptyList @@ "templates" :> EmptyList
         @@ "tiles" :> EmptyList @@ "walls" :> EmptyList
         @@ "folder" :> Null @@ "sort" :> Num(0)
         @@ "ownership" :> Dict("default" :> Num(0)) @@ "flags" :> Flags(resource))

\* a bug: the IMAGE properties are looked at first, the map document last
create_scene_entry_props_first(resource, imap, scene_id) ==
    LET map_doc == FirstMapDoc(resource)
        map_url == IF IsNull(map_doc) THEN EmptyStr ELSE MapId(map_doc)
        from_props == FirstImagePath(resource, imap)
    IN  Scene(scene_id, Get(resource, "name", Lit("Untitled Scene")),
              IF Truthy(from_props) THEN from_props
              ELSE IF Truthy(map_url) /\ map_url \in DOMAIN imap THEN imap[map_url]
              ELSE Null,
              resource)

\* scene_id: the value generate_id() returns
create_scene_entry(resource, imap, scene_id) ==
    LET map_doc == FirstMapDoc(resource)
        map_url == IF Truthy(map_doc) THEN MapId(map_doc) ELSE EmptyStr
        from_map == IF Truthy(map_url) /\ map_url \in DOMAIN imap THEN imap[map_url] ELSE Null
        background_src == IF ~Truthy(from_map) THEN FirstImagePath(resource, imap)
                          ELSE from_map
    IN  Scene(scene_id, Get(resource, "name", Lit("Untitled Scene")), background_src, resource)

-----------------------------------------------------------------------------
(* Inputs of the single function calls *)

MaxDepth == 2

Text(t) == Dict("type" :> Lit("text") @@ "text" :> Lit(t))
Marked(t, ms) ==
    Dict("type" :> Lit("text") @@ "text" :> Lit(t)
         @@ "marks" :> List([i \in 1..Len(ms) |-> Dict("type" :> Lit(ms[i]))]))
Node(t, kids) == Dict("type" :> Lit(t) @@ "content" :> List(kids))
Mention(id, text) ==
    Dict("type" :> Lit("mention") @@ "attrs" :> Dict("id" :> Lit(id) @@ "text" :> Lit(text)))
Image(src, alt) ==
    Dict("type" :> Lit("image") @@ "attrs" :> Dict("src" :> src @@ "alt" :> Lit(alt)))

AssetUrl(name) == Str(<<"https://", "assets.legendkeeper.com", "/", name>>)
LocalPath(category, name) == Str(<<"modules/tennisfel/", "assets/", category, "/", name>>)

\* well-formed leaves and leaves of a wrong shape
Leaves ==
    { Text("z"),
      Marked("Hi", <<"strong">>),
      Marked("em", <<"em", "blink", "strike">>),
      Mention("r1", "Bob"),
      Mention("r2", "Keep"),
      Mention("r9", "Eve"),
      Dict("type" :> Lit("mention") @@ "attrs" :> Dict("id" :> Lit("r1"))),
      Image(AssetUrl("x.png"), "A"),
      Dict("type" :> Lit("rule")),
      Node("heading", <<Text("T")>>),
      Dict("type" :> Lit("text") @@ "text" :> Null),
      Dict("type" :> Lit("text") @@ "text" :> Lit("m") @@ "marks" :> Null),
      Dict("type" :> Lit("text") @@ "text" :> Lit("n") @@ "marks" :> List(<<Lit("strong")>>)),
      Dict("type" :> Lit("mention") @@ "attrs" :> Null),
      Dict("type" :> Lit("bodiedExtension")
           @@ "attrs" :> Dict("parameters" :> Null) @@ "content" :> EmptyList),
      Dict("type" :> Lit("customBlock") @@ "content" :> Null),
      EmptyDict,
      Lit("raw"),
      Null }

WrapTypes == {"doc", "paragraph", "customBlock"}

RECURSIVE Trees(_)
Trees(d) ==
    IF d = 0 THEN Leaves
    ELSE LET T == Trees(d - 1)
             Kids == UNION {{<<x>>, <<Text("z"), x>>} : x \in T}
         IN  T \cup {Node(t, kids) : t \in WrapTypes, kids \in Kids}
               \cup {Dict("content" :> List(<<x>>)) : x \in T}

Entry(id, kind) == Dict("id" :> id @@ "type" :> Lit(kind))

MaxDocs == 2
MaxProps == 2

SeqsUpTo(S, n) == UNION {[1..k -> S] : k \in 0..n}

\* a key that is left out of a dict
Absent == <<"absent">>
Opt(k, v) == IF v = Absent THEN <<>> ELSE k :> v

MakeResource(id, name, docs, props, banner) ==
    Dict(Opt("id", id) @@ Opt("name", name) @@ "documents" :> List(docs)
         @@ "properties" :> List(props) @@ Opt("banner", banner)
         @@ "tags" :> List(<<Lit("lore")>>))

PageDoc(name, content) ==
    Dict("type" :> Lit("page") @@ Opt("name", name) @@ Opt("content", content))
MapDoc(map_id) ==
    Dict("type" :> Lit("map") @@ "name" :> Lit("Map") @@ "map" :> Dict(Opt("mapId", map_id)))
Prop(type, url) == Dict("type" :> Lit(type) @@ "data" :> Dict("url" :> url))
Banner(url) == Dict("url" :> url)

LocalRef(name) == Str(<<"uploads/", name>>)


RenderTables ==
    { Lit("r1") :> Entry(Lit("id1"), "JournalEntry") @@ Lit("r2") :> Entry(Lit("id2"), "Scene"),
      Lit("r1") :> Entry(Lit("id2"), "Scene") }

RenderAssets == AssetUrl("x.png") :> LocalPath("images", "x.png")

\* the nodes of a tree: the value and, through 'content' lists, its descendants
RECURSIVE SubNodes(_)
SubNodes(v) ==
    {v} \cup (IF IsDict(v) /\ IsList(Get(v, "content", EmptyList))
              THEN UNION {SubNodes(Get(v, "content", EmptyList)[2][i]) :
                             i \in 1..Len(Get(v, "content", EmptyList)[2])}
              ELSE {})

-----------------------------------------------------------------------------
(* One call of convert_prosemirror_to_html *)

Idle ==
    /\ resources = <<>>
    /\ resource_foundry_ids = <<>>
    /\ idx = 0
    /\ journal_entries = <<>>
    /\ scenes = <<>>
    /\ packs = <<>>

InitRender ==
    /\ pc = "call"
    /\ arg \in Trees(MaxDepth)
    /\ image_map = RenderAssets
    /\ resource_id_map \in RenderTables
    /\ ret = Null
    /\ Idle

CallConvert ==
    /\ pc = "call"
    /\ ret' = convert_prosemirror_to_html(arg, image_map, resource_id_map)
    /\ pc' = "returned"
    /\ UNCHANGED <<resources, image_map, resource_id_map, resource_foundry_ids, idx,
                   journal_entries, scenes, packs, arg>>

NextRender == CallConvert

SpecRender == InitRender /\ [][NextRender]_vars

IsMentionOf(n, rmap) ==
    /\ IsDict(n)
    /\ Get(n, "type", EmptyStr) = Lit("mention")
    /\ IsDict(Get(n, "attrs", EmptyDict))
    /\ Get(Get(n, "attrs", EmptyDict), "id", EmptyStr) \in DOMAIN rmap

\* the cross-reference token @UUID[<kind>.<target-id>]{<display text>}
Token(entry, text) ==
    Str(<<"@UUID[">> \o entry[2]["type"][2] \o <<".">> \o entry[2]["id"][2] \o <<"]{">>
        \o text[2] \o <<"}">>)

\* C1: a mention node whose attrs.id is a key of the Identifier Resolution
\* Table renders to the token @UUID[<kind>.<target-id>]{<display text>} built
\* from that key's entry, never to the display text alone; the call on such a
\* node returns that token.
C1_MentionResolves ==
    \A n \in SubNodes(arg) :
        IsMentionOf(n, resource_id_map) =>
            LET attrs == Get(n, "attrs", EmptyDict)
                out == process_node(n, image_map, resource_id_map)
            IN  /\ out = Token(resource_id_map[Get(attrs, "id", EmptyStr)],
                               Get(attrs, "text", EmptyStr))
                /\ out # Get(attrs, "text", EmptyStr)
                /\ (pc = "returned" /\ n = arg => ret = out)

C1_Witness ==
    /\ pc = "returned"
    /\ IsStr(ret)
    /\ \E n \in SubNodes(arg) :
          /\ n # arg
          /\ IsMentionOf(n, resource_id_map)
          /\ Get(Get(n, "attrs", EmptyDict), "id", EmptyStr) = Lit("r2")
    /\ Contains(ret, "@UUID[") /\ Contains(ret, "Scene") /\ Contains(ret, "id2")

IsUnknown(n) ==
    IsDict(n) /\ ~(\E t \in KnownTypes : Get(n, "type", EmptyStr) = Lit(t))

ChildOutputs(n) ==
    [i \in 1..Len(Get(n, "content", EmptyList)[2]) |->
        process_node(Get(n, "content", EmptyList)[2][i], image_map, resource_id_map)]

\* C5: convert_prosemirror_to_html returns a string for every tree, also for
\* trees of a wrong shape: it never raises and never returns None.
C5_Total == pc = "returned" => IsStr(ret)

\* C6: a node whose type is none of the known ones renders to the
\* concatenation, in child order, of what its children render to: nothing is
\* wrapped around it and no child's output is dropped.
C6_UnknownConcatenates ==
    \A n \in SubNodes(arg) :
        (/\ IsUnknown(n)
         /\ IsList(Get(n, "content", EmptyList))
         /\ \A i \in DOMAIN ChildOutputs(n) : IsStr(ChildOutputs(n)[i]))
        => /\ process_node(n, image_map, resource_id_map) = Str(ConcatAll(ChildOutputs(n)))
           /\ (pc = "returned" /\ n = arg => ret = Str(ConcatAll(ChildOutputs(n))))

C6_Witness ==
    /\ pc = "returned"
    /\ IsUnknown(arg)
    /\ Get(arg, "type", EmptyStr) = Lit("customBlock")
    /\ IsList(Get(arg, "content", EmptyList))
    /\ Len(ChildOutputs(arg)) = 2
    /\ \A i \in DOMAIN ChildOutputs(arg) : IsStr(ChildOutputs(arg)[i]) /\ Truthy(ChildOutputs(arg)[i])
    /\ ret = Str(ChildOutputs(arg)[1][2] \o ChildOutputs(arg)[2][2])

-----------------------------------------------------------------------------
(* One call of classify_resource *)

ClassifyDocs ==
    { PageDoc(Lit("Intro"), Node("doc", <<Text("z")>>)),
      MapDoc(AssetUrl("m.webp")),
      MapDoc(Absent),
      MapDoc(LocalRef("m.webp")) }

ClassifyProps ==
    { Prop("IMAGE", AssetUrl("p.png")),
      Prop("IMAGE", LocalRef("p.png")),
      Prop("IMAGE", EmptyStr),
      Prop("TEXT", AssetUrl("t.png")) }

InitClassify ==
    /\ pc = "call"
    /\ arg \in {MakeResource(Lit("r1"), Lit("Keep"), docs, props, Absent) :
                   docs \in SeqsUpTo(ClassifyDocs, MaxDocs),
                   props \in SeqsUpTo(ClassifyProps, MaxProps)}
    /\ image_map = <<>>
    /\ resource_id_map = <<>>
    /\ ret = Null
    /\ Idle

CallClassify ==
    /\ pc = "call"
    /\ ret' = classify_resource(arg)
    /\ pc' = "returned"
    /\ UNCHANGED <<resources, image_map, resource_id_map, resource_foundry_ids, idx,
                   journal_entries, scenes, packs, arg>>

NextClassify == CallClassify

SpecClassify == InitClassify /\ [][NextClassify]_vars

DocsOf(r) == Items(Get(r, "documents", EmptyList))
PropsOf(r) == Items(Get(r, "properties", EmptyList))
MapDocsOf(r) == {i \in 1..Len(DocsOf(r)) : IsMapDoc(DocsOf(r)[i])}
HasImageUrl(r) ==
    \E i \in 1..Len(PropsOf(r)) :
        IsImageProp(PropsOf(r)[i]) /\ UrlShaped(PropUrl(PropsOf(r)[i]))

\* C4 as claimed: Scene exactly when some map document, any of them, has a
\* non-empty URL-shaped mapId, or the resource has a map document and an IMAGE
\* property with a non-empty URL; the narrative-entry kind otherwise.
C4_AnyMapDocument ==
    pc = "returned" =>
        ret = IF \/ \E i \in MapDocsOf(arg) : UrlShaped(MapId(DocsOf(arg)[i]))
                 \/ MapDocsOf(arg) # {} /\ HasImageUrl(arg)
              THEN Lit("Scene")
              ELSE Lit("JournalEntry")

\* C4 as amended: Scene exactly when the first map document has a non-empty
\* mapId beginning with http, or the resource has a map document and an IMAGE
\* property with a non-empty url beginning with http; the narrative-entry
\* kind otherwise. A Scene has a non-empty map or property image URL.
C4_FirstMapDocument ==
    pc = "returned" =>
        LET first == IF MapDocsOf(arg) = {} THEN 0
                     ELSE CHOOSE i \in MapDocsOf(arg) : \A j \in MapDocsOf(arg) : i <= j
        IN  /\ ret = IF first # 0 /\ (UrlShaped(MapId(DocsOf(arg)[first])) \/ HasImageUrl(arg))
                     THEN Lit("Scene")
                     ELSE Lit("JournalEntry")
            /\ ret = Lit("Scene") =>
                  \/ \E i \in MapDocsOf(arg) : Truthy(MapId(DocsOf(arg)[i]))
                  \/ \E i \in 1..Len(PropsOf(arg)) :
                        IsImageProp(PropsOf(arg)[i]) /\ Truthy(PropUrl(PropsOf(arg)[i]))

\* a second map document carries the image, the first does not
C4_Witness ==
    /\ pc = "returned"
    /\ ret = Lit("JournalEntry")
    /\ Cardinality(MapDocsOf(arg)) = 2
    /\ \E i \in MapDocsOf(arg) : UrlShaped(MapId(DocsOf(arg)[i]))

-----------------------------------------------------------------------------
(* One call of create_scene_entry *)

SceneDocs ==
    { PageDoc(Lit("Intro"), Node("doc", <<Text("z")>>)),
      MapDoc(AssetUrl("m.webp")),
      MapDoc(AssetUrl("n.webp")),
      MapDoc(Absent) }

SceneProps ==
    { Prop("IMAGE", AssetUrl("p.png")),
      Prop("IMAGE", AssetUrl("q.png")),
      Prop("TEXT", AssetUrl("p.png")) }

\* tables that main can build: some of the asset urls, each with its local path
SceneTables ==
    { [u \in S |-> LocalPath(IF u = AssetUrl("m.webp") THEN "maps" ELSE "images", Filename(u))] :
        S \in SUBSET {AssetUrl("m.webp"), AssetUrl("p.png"), AssetUrl("q.png")} }

InitScene ==
    /\ pc = "call"
    /\ arg \in {MakeResource(Lit("r2"), Absent, docs, props, Absent) :
                   docs \in SeqsUpTo(SceneDocs, MaxDocs),
                   props \in SeqsUpTo(SceneProps, MaxProps)}
    /\ image_map \in SceneTables
    /\ resource_id_map = <<>>
    /\ ret = Null
    /\ Idle

CallScene ==
    /\ pc = "call"
    /\ \E scene_id \in generate_id : ret' = create_scene_entry(arg, image_map, scene_id)
    /\ pc' = "returned"
    /\ UNCHANGED <<resources, image_map, resource_id_map, resource_foundry_ids, idx,
                   journal_entries, scenes, packs, arg>>

NextScene == CallScene

SpecScene == InitScene /\ [][NextScene]_vars

ImageHits(r, imap) ==
    {i \in 1..Len(PropsOf(r)) :
        IsImageProp(PropsOf(r)[i]) /\ PropUrl(PropsOf(r)[i]) \in DOMAIN imap}

BackgroundSrc(scene) == scene[2]["background"][2]["src"]

\* C9: background.src is the table path of the mapId of the first map document
\* when that mapId is a key of the Asset Reference Table; otherwise the table
\* path of the first IMAGE property, in property order, whose url is a key of
\* the table; and None only when neither resolves.
C9_SceneBackground ==
    pc = "returned" =>
        LET first == IF MapDocsOf(arg) = {} THEN 0
                     ELSE CHOOSE i \in MapDocsOf(arg) : \A j \in MapDocsOf(arg) : i <= j
            hits == ImageHits(arg, image_map)
        IN  IF first # 0 /\ MapId(DocsOf(arg)[first]) \in DOMAIN image_map
            THEN BackgroundSrc(ret) = image_map[MapId(DocsOf(arg)[first])]
            ELSE IF hits # {}
            THEN BackgroundSrc(ret) =
                     image_map[PropUrl(PropsOf(arg)[CHOOSE i \in hits : \A j \in hits : i <= j])]
            ELSE BackgroundSrc(ret) = Null

\* the map image and an IMAGE property both resolve, and the map image is taken
C9_Witness ==
    /\ pc = "returned"
    /\ MapDocsOf(arg) # {}
    /\ ImageHits(arg, image_map) # {}
    /\ BackgroundSrc(ret) = LocalPath("maps", "m.webp")

-----------------------------------------------------------------------------
(* One call of create_journal_entry *)

JournalDocs ==
    { PageDoc(Lit("Intro"), Node("doc", <<Node("paragraph", <<Marked("Hi", <<"strong">>)>>)>>)),
      PageDoc(Absent, Node("doc", <<Mention("r2", "Keep")>>)),
      PageDoc(Lit("Notes"), Absent),
      PageDoc(Lit("Bare"), Dict("type" :> Lit("text") @@ "text" :> Null)),
      PageDoc(Lit("Broken"), Dict("type" :> Lit("doc") @@ "content" :> Null)),
      MapDoc(AssetUrl("m.webp")) }

JournalBanners == {Absent, Banner(AssetUrl("x.png")), Banner(AssetUrl("y.png"))}

InitJournal ==
    /\ pc = "call"
    /\ arg \in {MakeResource(Lit("r1"), Lit("Bob"), docs, <<>>, banner) :
                   docs \in SeqsUpTo(JournalDocs, MaxDocs), banner \in JournalBanners}
    /\ image_map = RenderAssets
    /\ resource_id_map \in RenderTables
    /\ ret = Null
    /\ Idle

CallJournal ==
    /\ pc = "call"
    /\ \E ids \in [1..JournalIdCalls(arg) -> generate_id] :
          ret' = create_journal_entry(arg, image_map, resource_id_map, ids)
    /\ pc' = "returned"
    /\ UNCHANGED <<resources, image_map, resource_id_map, resource_foundry_ids, idx,
                   journal_entries, scenes, packs, arg>>

NextJournal == CallJournal

SpecJournal == InitJournal /\ [][NextJournal]_vars

PagesOf(entry) == entry[2]["pages"][2]

PlaceholderBody == Str(<<"<p>No content</p>">>)

BannerResolves(r, imap) ==
    /\ IsDict(Get(r, "banner", EmptyDict))
    /\ Truthy(Get(Get(r, "banner", EmptyDict), "url", EmptyStr))
    /\ Get(Get(r, "banner", EmptyDict), "url", EmptyStr) \in DOMAIN imap

\* the banner image tag create_journal_entry puts before the first page's body
BannerTag(r, imap) ==
    IF BannerResolves(r, imap)
    THEN <<"<img src=\"">> \o imap[Get(Get(r, "banner", EmptyDict), "url", EmptyStr)][2]
             \o <<"\" alt=\"">> \o Fmt(Get(r, "name", Lit("Untitled"))) \o <<"\" />">>
    ELSE <<>>

\* one page per page document, in document order, sort the page's position
PagePerPageDocument(r, entry) ==
    LET docs == DocsOf(r)
        at == [k \in 1..Cardinality({i \in 1..Len(docs) : IsPageDoc(docs[i])}) |->
                  CHOOSE i \in 1..Len(docs) :
                      /\ IsPageDoc(docs[i])
                      /\ Cardinality({j \in 1..i : IsPageDoc(docs[j])}) = k]
    IN  /\ Len(PagesOf(entry)) = Len(at)
        /\ \A k \in 1..Len(at) :
              /\ PagesOf(entry)[k][2]["sort"] = Num(k - 1)
              /\ PagesOf(entry)[k][2]["name"] = Get(docs[at[k]], "name", Lit("Main"))
              /\ LET html == convert_prosemirror_to_html(
                                 Get(docs[at[k]], "content", EmptyDict),
                                 image_map, resource_id_map)
                 IN  PageContent(PagesOf(entry)[k]) =
                         IF k = 1 /\ BannerResolves(r, image_map)
                         THEN Str(BannerTag(r, image_map) \o html[2])
                         ELSE html

HasPageDoc(r) == \E i \in 1..Len(DocsOf(r)) : IsPageDoc(DocsOf(r)[i])

\* C7 as claimed: the returned record has one page per page document, in
\* document order with sort the page's position; with no page document it has
\* exactly one placeholder page whose body is '<p>No content</p>'.
C7_PlaceholderBodyFixed ==
    (pc = "returned" /\ IsDict(ret)) =>
        /\ PagesOf(ret) # <<>>
        /\ IF HasPageDoc(arg) THEN PagePerPageDocument(arg, ret)
           ELSE /\ Len(PagesOf(ret)) = 1
                /\ PageContent(PagesOf(ret)[1]) = PlaceholderBody

\* C7 as amended: as claimed, but the body of the placeholder page is
\* '<p>No content</p>' preceded by the banner image tag when the banner url
\* of the resource is a key of the Asset Reference Table.
C7_JournalPages ==
    (pc = "returned" /\ IsDict(ret)) =>
        /\ PagesOf(ret) # <<>>
        /\ IF HasPageDoc(arg) THEN PagePerPageDocument(arg, ret)
           ELSE /\ Len(PagesOf(ret)) = 1
                /\ PagesOf(ret)[1][2]["sort"] = Num(0)
                /\ PageContent(PagesOf(ret)[1])
                     = Str(BannerTag(arg, image_map) \o PlaceholderBody[2])

\* two page documents around a map document, and a banner that resolves
C7_Witness ==
    /\ pc = "returned"
    /\ IsDict(ret)
    /\ Len(PagesOf(ret)) = 2
    /\ BannerResolves(arg, image_map)
    /\ PagesOf(ret)[1][2]["name"] # PagesOf(ret)[2][2]["name"]
    /\ PagesOf(ret)[2][2]["sort"] = Num(1)

C7_WitnessPlaceholder ==
    /\ pc = "returned"
    /\ IsDict(ret)
    /\ ~HasPageDoc(arg)
    /\ DocsOf(arg) # <<>>
    /\ BannerResolves(arg, image_map)

-----------------------------------------------------------------------------
(* One call of collect_image_urls *)

MaxNesting == 2

EvilUrl == Str(<<"https://", "evil.example", "/?next=", ASSET_HOST, "/a.png">>)
OtherUrl == Str(<<"https://", "other.example", "/", "c.png">>)

CollectValues ==
    {AssetUrl("a.png"), AssetUrl("b.webp"), EvilUrl, OtherUrl, Num(7), Null}

CollectFlat ==
    CollectValues
      \cup {Dict(k :> v) : k \in {"url", "mapId", "src"}, v \in CollectValues}
      \cup {Dict("url" :> v @@ "mapId" :> w) : v, w \in CollectValues \ {Num(7), Null}}

RECURSIVE CollectInputs(_)
CollectInputs(d) ==
    IF d = 0 THEN CollectFlat
    ELSE LET T == CollectInputs(d - 1) IN
         T \cup {Dict("data" :> x) : x \in T}
           \cup {List(<<x, Dict("url" :> AssetUrl("b.webp"))>>) : x \in T}
           \cup {Dict("url" :> AssetUrl("a.png") @@ "documents" :> List(<<x>>)) : x \in T}

InitCollect ==
    /\ pc = "call"
    /\ arg \in CollectInputs(MaxNesting)
    /\ image_map = <<>>
    /\ resource_id_map = <<>>
    /\ ret = Null
    /\ Idle

CallCollect ==
    /\ pc = "call"
    /\ ret' = collect_image_urls(arg)
    /\ pc' = "returned"
    /\ UNCHANGED <<resources, image_map, resource_id_map, resource_foundry_ids, idx,
                   journal_entries, scenes, packs, arg>>

NextCollect == CallCollect

SpecCollect == InitCollect /\ [][NextCollect]_vars

\* the url begins with the trusted asset host, after its scheme
BeginsWithAssetHost(s) ==
    \/ Len(s[2]) >= 1 /\ s[2][1] = ASSET_HOST
    \/ Len(s[2]) >= 2 /\ s[2][1] \in HttpChunks /\ s[2][2] = ASSET_HOST

\* the str values under a key 'url' or 'mapId', at any depth
RECURSIVE UrlKeyValues(_)
UrlKeyValues(obj) ==
    (IF IsDict(obj)
     THEN {obj[2][k] : k \in {k \in {"url", "mapId"} \cap DOMAIN obj[2] : IsStr(obj[2][k])}}
     ELSE {})
      \cup UNION {UrlKeyValues(c) : c \in Children(obj)}

\* C8: collect_image_urls returns exactly the str values under a key 'url' or
\* 'mapId', at any depth, that begin with the trusted asset host; a str that
\* holds the host name elsewhere, or a url of another host, is never returned.
C8_BeginsWithHost ==
    pc = "returned" =>
        ret = SetOf({u \in UrlKeyValues(arg) : BeginsWithAssetHost(u)})

-----------------------------------------------------------------------------
(* main *)

MaxResources == 2

BannerUrl(name) == Str(<<"https://", ASSET_HOST, "/Banner/", name>>)

\* c.lower() on the chunks of the inputs
Lower(c) == IF c = "/Banner/" THEN "/banner/" ELSE c

\* '/banner' in url.lower()
HasBannerPath(url) == \E i \in 1..Len(url[2]) : Lower(url[2][i]) \in {"/banner", "/banner/"}

MainResources ==
    { MakeResource(Lit("r1"), Lit("Bob"),
                   <<PageDoc(Lit("Intro"), Node("doc", <<Mention("r2", "Keep")>>))>>,
                   <<>>, Banner(BannerUrl("b.png"))),
      MakeResource(Lit("r2"), Lit("Keep"), <<MapDoc(AssetUrl("m.webp"))>>, <<>>, Absent),
      MakeResource(Lit("r1"), Lit("Twin"), <<>>, <<>>, Absent),
      MakeResource(Absent, Absent, <<MapDoc(Absent)>>,
                   <<Prop("IMAGE", AssetUrl("p.png"))>>, Absent),
      MakeResource(Absent, Lit("Torn"),
                   <<PageDoc(Lit("Broken"), Dict("type" :> Lit("doc") @@ "content" :> Null))>>,
                   <<>>, Absent) }

Init ==
    /\ pc = "download"
    /\ resources \in SeqsUpTo(MainResources, MaxResources)
    /\ image_map = <<>>
    /\ resource_id_map = <<>>
    /\ resource_foundry_ids = <<>>
    /\ idx = 0
    /\ journal_entries = <<>>
    /\ scenes = <<>>
    /\ packs = <<>>
    /\ arg = Null
    /\ ret = Null

\* d[k] = v on a Python dict held as a function
DictSet(d, k, v) == [x \in DOMAIN d \cup {k} |-> IF x = k THEN v ELSE d[x]]

\* d[k] = v on an insertion-ordered dict held as a sequence of <<key, value>>:
\* a key that is there keeps its place
OrderedSet(d, k, v) ==
    IF \E i \in 1..Len(d) : d[i][1] = k
    THEN [i \in 1..Len(d) |-> IF d[i][1] = k THEN <<k, v>> ELSE d[i]]
    ELSE Append(d, <<k, v>>)

\* map_urls: the non-empty mapIds of the map documents
MapUrlsOf(rs) ==
    UNION {{MapId(DocsOf(rs[r])[i]) :
               i \in {i \in 1..Len(DocsOf(rs[r])) :
                         IsMapDoc(DocsOf(rs[r])[i]) /\ Truthy(MapId(DocsOf(rs[r])[i]))}} :
           r \in 1..Len(rs)}

Category(url, map_urls) ==
    IF url \in map_urls THEN "maps"
    ELSE IF HasBannerPath(url) THEN "banners"
    ELSE "images"

\* steps 2 and 3: the urls are collected and each is downloaded or not
DownloadImages ==
    /\ pc = "download"
    /\ LET image_urls == collect_image_urls(Dict("resources" :> List(resources)))[2]
           map_urls == MapUrlsOf(resources)
       IN  \E got \in SUBSET image_urls :
              /\ \A url \in image_urls :
                    (IF url \in got THEN Str(<<"modules/tennisfel/", "assets/",
                                               Category(url, map_urls), "/", Filename(url)>>)
                     ELSE Null) \in download_image(url, Category(url, map_urls))
              /\ image_map' = [url \in got |->
                                  Str(<<"modules/tennisfel/", "assets/",
                                        Category(url, map_urls), "/", Filename(url)>>)]
    /\ pc' = "ids"
    /\ UNCHANGED <<resources, resource_id_map, resource_foundry_ids, idx,
                   journal_entries, scenes, packs, arg, ret>>

\* first pass, one resource: its identifier is drawn and its kind decided
IdStep ==
    /\ pc = "ids"
    /\ idx < Len(resources)
    /\ LET resource == resources[idx + 1]
           legendkeeper_id == Get(resource, "id", EmptyStr)
           doc_type == classify_resource(resource)
       IN  \E foundry_id \in generate_id :
              /\ resource_id_map' =
                     DictSet(resource_id_map, legendkeeper_id,
                             Dict("id" :> foundry_id @@ "type" :> doc_type))
              /\ resource_foundry_ids' =
                     OrderedSet(resource_foundry_ids, legendkeeper_id,
                                Dict("foundry_id" :> foundry_id @@ "resource" :> resource
                                     @@ "doc_type" :> doc_type))
    /\ idx' = idx + 1
    /\ UNCHANGED <<pc, resources, image_map, journal_entries, scenes, packs, arg, ret>>

\* a bug: the first pass stops one resource early
IdPassDoneEarly ==
    /\ pc = "ids"
    /\ idx >= Len(resources) - 1
    /\ pc' = "render"
    /\ idx' = 0
    /\ UNCHANGED <<resources, image_map, resource_id_map, resource_foundry_ids,
                   journal_entries, scenes, packs, arg, ret>>

\* the first pass is over: the second pass starts with empty lists
IdPassDone ==
    /\ pc = "ids"
    /\ idx = Len(resources)
    /\ pc' = "render"
    /\ idx' = 0
    /\ UNCHANGED <<resources, image_map, resource_id_map, resource_foundry_ids,
                   journal_entries, scenes, packs, arg, ret>>

\* entry['_id'] = foundry_id
WithId(entry, foundry_id) == Dict([entry[2] EXCEPT !["_id"] = foundry_id])

\* a bug: the builder records the identifier it drew itself in the table
RenderStepRegistering ==
    /\ pc = "render"
    /\ idx < Len(resource_foundry_ids)
    /\ LET legendkeeper_id == resource_foundry_ids[idx + 1][1]
           data == resource_foundry_ids[idx + 1][2]
           resource == data[2]["resource"]
           foundry_id == data[2]["foundry_id"]
           doc_type == data[2]["doc_type"]
       IN  \E scene_id \in generate_id :
              /\ resource_id_map' =
                     DictSet(resource_id_map, legendkeeper_id,
                             Dict("id" :> scene_id @@ "type" :> doc_type))
              /\ scenes' = Append(scenes,
                                  WithId(create_scene_entry(resource, image_map, scene_id),
                                         foundry_id))
    /\ idx' = idx + 1
    /\ UNCHANGED <<pc, resources, image_map, resource_foundry_ids, journal_entries,
                   packs, arg, ret>>

\* second pass, one item of resource_foundry_ids: its record is built; a raise
\* in the builder ends main
RenderStep ==
    /\ pc = "render"
    /\ idx < Len(resource_foundry_ids)
    /\ LET data == resource_foundry_ids[idx + 1][2]
           resource == data[2]["resource"]
           foundry_id == data[2]["foundry_id"]
           doc_type == data[2]["doc_type"]
       IN  \/ /\ doc_type = Lit("JournalEntry")
              /\ \E ids \in [1..JournalIdCalls(resource) -> generate_id] :
                    LET entry == create_journal_entry(resource, image_map,
                                                      resource_id_map, ids)
                    IN  IF IsRaise(entry)
                        THEN /\ pc' = "crashed"
                             /\ UNCHANGED <<idx, journal_entries>>
                        ELSE /\ journal_entries' =
                                    Append(journal_entries, WithId(entry, foundry_id))
                             /\ idx' = idx + 1
                             /\ pc' = pc
              /\ UNCHANGED scenes
           \/ /\ doc_type = Lit("Scene")
              /\ \E scene_id \in generate_id :
                    scenes' = Append(scenes,
                                     WithId(create_scene_entry(resource, image_map, scene_id),
                                            foundry_id))
              /\ idx' = idx + 1
              /\ UNCHANGED <<pc, journal_entries>>
    /\ UNCHANGED <<resources, image_map, resource_id_map, resource_foundry_ids,
                   packs, arg, ret>>

\* step 7: write_db_file for the journal entries and for the scenes
WritePacks ==
    /\ pc = "render"
    /\ idx = Len(resource_foundry_ids)
    /\ packs' = ("tennisfel-journal.db" :> journal_entries
                 @@ "tennisfel-scenes.db" :> scenes)
    /\ pc' = "done"
    /\ UNCHANGED <<resources, image_map, resource_id_map, resource_foundry_ids, idx,
                   journal_entries, scenes, arg, ret>>

Next == DownloadImages \/ IdStep \/ IdPassDone \/ RenderStep \/ WritePacks

Spec == Init /\ [][Next]_vars

KeyOf(resource) == Get(resource, "id", EmptyStr)

RenderStarted ==
    pc \in {"render", "crashed", "done"} \/ journal_entries # <<>> \/ scenes # <<>>

\* C2: no Document Builder runs before the identifier pass has handled every
\* resource: once rendering has started, the Identifier Resolution Table
\* holds, for every resource of the input, an entry under its source id whose
\* kind is the classification of a resource with that id.
C2_TableCompleteBeforeRender ==
    RenderStarted =>
        \A k \in 1..Len(resources) :
            /\ KeyOf(resources[k]) \in DOMAIN resource_id_map
            /\ \E j \in 1..Len(resources) :
                  /\ KeyOf(resources[j]) = KeyOf(resources[k])
                  /\ resource_id_map[KeyOf(resources[k])][2]["type"]
                       = classify_resource(resources[j])

\* a mention of a resource that comes later in the input has been resolved
C2_Witness ==
    /\ Len(resources) = 2
    /\ KeyOf(resources[1]) = Lit("r1")
    /\ KeyOf(resources[2]) = Lit("r2")
    /\ Len(journal_entries) = 1
    /\ Contains(PageContent(PagesOf(journal_entries[1])[1]), "@UUID[")
    /\ Contains(PageContent(PagesOf(journal_entries[1])[1]), "Scene")

\* C3: after the identifier pass the Identifier Resolution Table has as many
\* entries as there are resources, also when resources share a source id or
\* have none, and the target identifiers of its entries are pairwise distinct
\* whatever generate_id returns.
C3_OneEntryPerResource ==
    RenderStarted =>
        /\ Cardinality(DOMAIN resource_id_map) = Len(resources)
        /\ \A a, b \in DOMAIN resource_id_map :
              a # b => resource_id_map[a][2]["id"] # resource_id_map[b][2]["id"]

\* C10: a step of the render pass changes neither the Asset Reference Table,
\* nor the Identifier Resolution Table, nor the input resources.
C10_RenderKeepsTables ==
    [][pc = "render" => UNCHANGED <<image_map, resource_id_map, resources>>]_vars

\* both builders have run, on tables that are not empty
C10_Witness ==
    /\ pc = "render"
    /\ journal_entries # <<>>
    /\ scenes # <<>>
    /\ DOMAIN image_map # {}
    /\ Cardinality(DOMAIN resource_id_map) = 2

\* the file write_db_file gets for the records of a kind
PackOf(kind) ==
    IF kind = Lit("Scene") THEN "tennisfel-scenes.db" ELSE "tennisfel-journal.db"

Written == packs["tennisfel-journal.db"] \o packs["tennisfel-scenes.db"]

\* C11: at the end of main() every input resource has produced exactly one
\* record: it is in the file of the kind the Identifier Resolution Table
\* records for the resource, its _id is the target identifier of the table,
\* and as many records are written as there are input resources.
C11_OneRecordPerResource ==
    pc = "done" =>
        /\ Len(Written) = Len(resources)
        /\ \A k \in 1..Len(resources) :
              LET entry == resource_id_map[KeyOf(resources[k])]
                  pack == packs[PackOf(entry[2]["type"])]
              IN  Cardinality({i \in 1..Len(pack) :
                                  /\ pack[i][2]["_id"] = entry[2]["id"]
                                  /\ pack[i][2]["name"] = Get(resources[k], "name",
                                         IF entry[2]["type"] = Lit("Scene")
                                         THEN Lit("Untitled Scene") ELSE Lit("Untitled"))})
                    = 1

====
